---- MODULE Spec2Model ----
(***************************************************************************)
(* Host side of the Fastboot protocol: the reply decoder, the exchange     *)
(* primitive fb_send and the protocol operations of the Fastboot trait     *)
(* (src/src/fastboot.rs), driven over the bulk transport of                *)
(* src/usbio/src/usbio.rs.                                                 *)
(*                                                                         *)
(* Bytes are numbers 0..255, byte strings are sequences of bytes, Rust     *)
(* Strings are sequences of Unicode scalar values.                         *)
(***************************************************************************)
EXTENDS Integers, Sequences, FiniteSets, TLC

\* --------------------------------------------------------------- bounds
\* Operations issued one after the other on the same handle.
MaxOps == 2
\* Timeout-classified read errors the transport reports within one operation.
MaxTimeouts == 2
\* Longest download payload (bytes).
MaxData == 2
\* Short (partial) bulk-OUT transfers the transport reports within one operation.
MaxPartial == 1
\* Replies the device may have queued on the bulk-IN endpoint.
MaxQueue == 2

\* ------------------------------------------------------ program constants
GETVAR_CMD == <<103, 101, 116, 118, 97, 114, 58>>
DOWNLOAD_CMD == <<100, 111, 119, 110, 108, 111, 97, 100, 58>>
FLASH_CMD == <<102, 108, 97, 115, 104, 58>>
ERASE_CMD == <<101, 114, 97, 115, 101, 58>>
CONTINUE_CMD == <<99, 111, 110, 116, 105, 110, 117, 101>>
REBOOT_CMD == <<114, 101, 98, 111, 111, 116>>
REBOOT_BOOTLOADER_CMD ==
    <<114, 101, 98, 111, 111, 116, 45, 98, 111, 111, 116, 108, 111, 97, 100, 101, 114>>

\* The four reply tags, b"OKAY", b"INFO", b"FAIL", b"DATA".
TagOKAY == <<79, 75, 65, 89>>
TagINFO == <<73, 78, 70, 79>>
TagFAIL == <<70, 65, 73, 76>>
TagDATA == <<68, 65, 84, 65>>

\* "DATA: Failed to decode size"
DataDecodeFailure ==
    <<68, 65, 84, 65, 58, 32, 70, 97, 105, 108, 101, 100, 32, 116, 111, 32,
      100, 101, 99, 111, 100, 101, 32, 115, 105, 122, 101>>
\* "Unknown failure"
UnknownFailure ==
    <<85, 110, 107, 110, 111, 119, 110, 32, 102, 97, 105, 108, 117, 114, 101>>

\* U+FFFD REPLACEMENT CHARACTER, what from_utf8_lossy puts for invalid input.
Replacement == 65533

\* ------------------------------------------------------- sequence helpers
Take(s, n) == SubSeq(s, 1, n)
Drop(s, n) == SubSeq(s, n + 1, Len(s))

\* ------------------------------------------------------- String::from_utf8_lossy
IsCont(b) == b >= 128 /\ b <= 191

\* The range the second byte of a multi-byte sequence must lie in.
SecondOk(lead, b) ==
    CASE lead = 224 -> b >= 160 /\ b <= 191
      [] lead = 237 -> b >= 128 /\ b <= 159
      [] lead = 240 -> b >= 144 /\ b <= 191
      [] lead = 244 -> b >= 128 /\ b <= 143
      [] OTHER -> IsCont(b)

RECURSIVE Utf8Lossy(_)
Utf8Lossy(bs) ==
    IF bs = <<>> THEN <<>>
    ELSE LET b == bs[1]
             n == Len(bs)
         IN  IF b < 128 THEN <<b>> \o Utf8Lossy(Drop(bs, 1))
             ELSE IF b >= 194 /\ b <= 223 THEN
                 IF n >= 2 /\ IsCont(bs[2])
                 THEN <<(b % 32) * 64 + (bs[2] % 64)>> \o Utf8Lossy(Drop(bs, 2))
                 ELSE <<Replacement>> \o Utf8Lossy(Drop(bs, 1))
             ELSE IF b >= 224 /\ b <= 239 THEN
                 IF ~(n >= 2 /\ SecondOk(b, bs[2]))
                 THEN <<Replacement>> \o Utf8Lossy(Drop(bs, 1))
                 ELSE IF ~(n >= 3 /\ IsCont(bs[3]))
                 THEN <<Replacement>> \o Utf8Lossy(Drop(bs, 2))
                 ELSE <<(b % 16) * 4096 + (bs[2] % 64) * 64 + (bs[3] % 64)>>
                      \o Utf8Lossy(Drop(bs, 3))
             ELSE IF b >= 240 /\ b <= 244 THEN
                 IF ~(n >= 2 /\ SecondOk(b, bs[2]))
                 THEN <<Replacement>> \o Utf8Lossy(Drop(bs, 1))
                 ELSE IF ~(n >= 3 /\ IsCont(bs[3]))
                 THEN <<Replacement>> \o Utf8Lossy(Drop(bs, 2))
                 ELSE IF ~(n >= 4 /\ IsCont(bs[4]))
                 THEN <<Replacement>> \o Utf8Lossy(Drop(bs, 3))
                 ELSE <<(b % 8) * 262144 + (bs[2] % 64) * 4096
                        + (bs[3] % 64) * 64 + (bs[4] % 64)>>
                      \o Utf8Lossy(Drop(bs, 4))
             ELSE <<Replacement>> \o Utf8Lossy(Drop(bs, 1))

\* ------------------------------------------------------- str::trim_matches
RECURSIVE TrimStart(_, _)
TrimStart(s, c) ==
    IF s /= <<>> /\ s[1] = c THEN TrimStart(Drop(s, 1), c) ELSE s

RECURSIVE TrimEnd(_, _)
TrimEnd(s, c) ==
    IF s /= <<>> /\ s[Len(s)] = c THEN TrimEnd(Take(s, Len(s) - 1), c) ELSE s

\* Faulty variant: only the leading matches are removed.
trim_start_only(s, c) == TrimStart(s, c)

trim_matches(s, c) == TrimEnd(TrimStart(s, c), c)

\* ------------------------------------------------------- usize::from_str_radix(_, 16)
\* char::to_digit(16): the digit's value, or -1 for a character that is none.
ToDigit16(c) ==
    IF c >= 48 /\ c <= 57 THEN c - 48
    ELSE IF c >= 97 /\ c <= 102 THEN c - 87
    ELSE IF c >= 65 /\ c <= 70 THEN c - 55
    ELSE -1

\* Bits of usize on the 64-bit hosts the client is built for.
UsizeBits == 64

RECURSIVE HexValue(_)
HexValue(ds) ==
    IF ds = <<>> THEN 0
    ELSE HexValue(Take(ds, Len(ds) - 1)) * 16 + ToDigit16(ds[Len(ds)])

\* A usize holds UsizeBits \div 4 hexadecimal digits: more significant digits overflow.
from_str_radix(s) ==
    LET digits == IF s /= <<>> /\ s[1] = 43 THEN Drop(s, 1) ELSE s
        sig == TrimStart(digits, 48)
    IN  IF digits = <<>> THEN [ok |-> FALSE, val |-> 0]
        ELSE IF \E i \in 1..Len(digits) : ToDigit16(digits[i]) < 0
        THEN [ok |-> FALSE, val |-> 0]
        ELSE IF Len(sig) * 4 > UsizeBits THEN [ok |-> FALSE, val |-> 0]
        ELSE [ok |-> TRUE, val |-> HexValue(sig)]

\* ------------------------------------------------------- format!("{:08x}", n)
RECURSIVE LowerHex(_)
LowerHex(n) ==
    LET d == n % 16
        c == IF d < 10 THEN 48 + d ELSE 87 + d
    IN  IF n < 16 THEN <<c>> ELSE LowerHex(n \div 16) \o <<c>>

RECURSIVE ZeroPad(_, _)
ZeroPad(s, width) == IF Len(s) >= width THEN s ELSE ZeroPad(<<48>> \o s, width)

Hex08(n) == ZeroPad(LowerHex(n), 8)

\* data.len() is a usize of UsizeBits bits: a length is held as two limbs,
\* hi * 16^LimbDigits + lo with lo < 16^LimbDigits, so that lengths of 16^8
\* bytes and more can be formatted.
LimbDigits == 7
Usize(hi, lo) == [hi |-> hi, lo |-> lo]

\* {:x} of a usize: the digits of the high limb, if there is one, followed by
\* all LimbDigits digits of the low limb.
UsizeLowerHex(len) ==
    IF len.hi = 0 THEN LowerHex(len.lo)
    ELSE LowerHex(len.hi) \o ZeroPad(LowerHex(len.lo), LimbDigits)

\* download's command for a payload of len bytes: 08 is a minimum width.
DownloadCommand(len) == DOWNLOAD_CMD \o ZeroPad(UsizeLowerHex(len), 8)

\* ------------------------------------------------------- enum Reply
Okay(m) == [tag |-> "Okay", msg |-> m, size |-> 0]
Data(n) == [tag |-> "Data", msg |-> <<>>, size |-> n]
Fail(m) == [tag |-> "Fail", msg |-> m, size |-> 0]
Info(m) == [tag |-> "Info", msg |-> m, size |-> 0]

\* reply.split_at(4) panics on a slice shorter than 4 bytes.
SplitPanics(raw) == Len(raw) < 4

\* Faulty variant: the last arm taking the reply for a success.
UnknownTagOkay(s) == Okay(s)

\* The decoder's last arm: a reply with none of the four tags is a failure
\* that carries the payload.
UnknownTag(s) == Fail(s)

\* impl From<&mut [u8]> for Reply, for a slice of at least 4 bytes.
Decode(raw) ==
    LET kind == Take(raw, 4)
        s == Utf8Lossy(Drop(raw, 4))
    IN  CASE kind = TagOKAY -> Okay(s)
          [] kind = TagINFO -> Info(s)
          [] kind = TagFAIL -> Fail(s)
          [] kind = TagDATA ->
                LET p == from_str_radix(trim_matches(s, 0))
                IN  IF p.ok THEN Data(p.val) ELSE Fail(DataDecodeFailure)
          [] OTHER -> UnknownTag(s)

\* The decoder's eprintln!: it logs exactly the replies with an unknown tag.
DecodeLogs(raw) == Take(raw, 4) \notin {TagOKAY, TagINFO, TagFAIL, TagDATA}

\* ------------------------------------------------------- commands
Ops == {"getvar", "download", "flash", "erase", "continue_boot", "reboot",
        "reboot_bootloader"}

\* The command an operation writes first (var.as_bytes() and partition.as_bytes()
\* are the UTF-8 bytes the argument already consists of).
Command(o, a, d) ==
    CASE o = "getvar" -> GETVAR_CMD \o a
      [] o = "download" -> DOWNLOAD_CMD \o Hex08(Len(d))
      [] o = "flash" -> FLASH_CMD \o a
      [] o = "erase" -> ERASE_CMD \o a
      [] o = "continue_boot" -> CONTINUE_CMD
      [] o = "reboot" -> REBOOT_CMD
      [] o = "reboot_bootloader" -> REBOOT_BOOTLOADER_CMD

\* ------------------------------------------------------- reply classification
\* What an operation does with a decoded reply: return a value (kind "ok" or
\* "err", val the String it carries, print whether it was println!-ed first),
\* or go on to send the payload (download's first stage only).
RetOk(v) == [next |-> "return", kind |-> "ok", why |-> "okay", val |-> v, print |-> FALSE]
RetErr(w, v, p) == [next |-> "return", kind |-> "err", why |-> w, val |-> v, print |-> p]
SendPayload == [next |-> "payload", kind |-> "none", why |-> "data", val |-> <<>>, print |-> FALSE]

\* Faulty variant: the Okay and Fail arms both returning the message as the value.
ClassifyGetvarFailOk(r) ==
    CASE r.tag \in {"Okay", "Fail"} -> RetOk(r.msg)
      [] OTHER -> RetErr("unknown", UnknownFailure, FALSE)

\* getvar's match on the reply.
ClassifyGetvar(r) ==
    CASE r.tag = "Okay" -> RetOk(r.msg)
      [] r.tag = "Fail" -> RetErr("fail", r.msg, FALSE)
      [] OTHER -> RetErr("unknown", UnknownFailure, FALSE)

\* Faulty variant: an Info reply taken for success.
ClassifyFlashInfoOk(r) ==
    CASE r.tag \in {"Okay", "Info"} -> RetOk(<<>>)
      [] r.tag = "Fail" -> RetErr("fail", r.msg, FALSE)
      [] OTHER -> RetErr("unknown", UnknownFailure, FALSE)

\* Faulty variant: the match of erase in the place of flash's: no Info arm.
ClassifyFlashNoInfoArm(r) ==
    CASE r.tag = "Okay" -> RetOk(<<>>)
      [] r.tag = "Fail" -> RetErr("fail", r.msg, FALSE)
      [] OTHER -> RetErr("unknown", UnknownFailure, FALSE)

\* The match of flash, and of download on the reply to the payload.
ClassifyFlash(r) ==
    CASE r.tag = "Okay" -> RetOk(<<>>)
      [] r.tag = "Fail" -> RetErr("fail", r.msg, FALSE)
      [] r.tag = "Info" -> RetErr("info", r.msg, TRUE)
      [] OTHER -> RetErr("unknown", UnknownFailure, FALSE)

\* The match of erase, continue_boot, reboot and reboot_bootloader.
ClassifySimple(r) ==
    CASE r.tag = "Okay" -> RetOk(<<>>)
      [] r.tag = "Fail" -> RetErr("fail", r.msg, FALSE)
      [] OTHER -> RetErr("unknown", UnknownFailure, FALSE)

\* Faulty variant: the guard left out: any announced size is accepted.
SizeMatchesAny(size, d) == TRUE

\* The guard of download's first arm: `size == data.len()`.
SizeMatches(size, d) == size = Len(d)

\* Faulty variant: flash's Okay arm in download's first match: success on Okay.
ClassifyDownloadCmdOkay(r, d) ==
    IF r.tag = "Data" /\ SizeMatches(r.size, d) THEN SendPayload
    ELSE IF r.tag = "Okay" THEN RetOk(<<>>)
    ELSE IF r.tag = "Fail" THEN RetErr("fail", r.msg, FALSE)
    ELSE RetErr("unknown", UnknownFailure, FALSE)

\* download's match on the reply to the `download:` command.
ClassifyDownloadCmd(r, d) ==
    IF r.tag = "Data" /\ SizeMatches(r.size, d) THEN SendPayload
    ELSE IF r.tag = "Fail" THEN RetErr("fail", r.msg, FALSE)
    ELSE RetErr("unknown", UnknownFailure, FALSE)

Classify(o, st, r, d) ==
    CASE o = "getvar" -> ClassifyGetvar(r)
      [] o = "download" /\ st = 1 -> ClassifyDownloadCmd(r, d)
      [] o = "download" /\ st = 2 -> ClassifyFlash(r)
      [] o = "flash" -> ClassifyFlash(r)
      [] OTHER -> ClassifySimple(r)

\* ------------------------------------------------------- transport outcomes
\* The kinds of error UsbDevice::read and UsbDevice::write return: the timer
\* won the race (TimedOut), or the transfer completed with a bad status (Other).
ErrorKinds == {"TimedOut", "Other"}

\* write_all's loop condition `while !buf.is_empty()`: it is done when nothing
\* is left to write.
WriteAllDone(rest) == rest = <<>>

\* Faulty variant: a timed-out write tried again, as a timed-out read is.
WriteAllRetriesTimeout(kind) == kind \in {"Interrupted", "TimedOut"}

\* write_all goes round its loop again only on ErrorKind::Interrupted.
WriteAllRetries(kind) == kind = "Interrupted"

\* fb_send goes round its read loop again only on ErrorKind::TimedOut.
ReadRetries(kind) == kind = "TimedOut"

\* ------------------------------------------------------- state
VARIABLES
    pc,        \* where the caller is: "idle", "write" (in write_all), "read" (in
               \* fb_send's read loop), "done" (the operation returned), "panic"
    op,        \* the operation in progress or last finished
    arg,       \* its variable or partition name (bytes)
    data,      \* download's payload (bytes)
    stage,     \* which fb_send call of the operation is running: 1 or 2
    pending,   \* write_all's buffer: the bytes not yet accepted by the transport
    result,    \* the FbResult the operation returned: kind "ok" or "err", val
               \* the String it carries, why the arm that produced it, io the
               \* kind of the transport error it reports
    replies,   \* the replies fb_send returned to the operation, in order
    wcalls,    \* calls of Write::write per stage
    rcalls,    \* calls of Read::read per stage
    timeouts,  \* timeout-classified read errors per stage
    partials,  \* short writes so far in the operation
    sent,      \* the bytes the transport accepted, per stage
    out,       \* what the operation printed with println!
    errlog,    \* what the decoder printed with eprintln!
    devq,      \* the device's replies not yet read, each marked stale when it
               \* answers an earlier request than the one now being exchanged
    origin,    \* per reply read in the operation: was it stale
    opCount,   \* operations called so far
    delivered, \* bytes of the request being written that have reached the device
    unanswered,\* requests written in full on the handle whose reply is not yet read
    devinfo,   \* what the USB stack reports of the device given to UsbDevice::new:
               \* its link speed and the endpoints of its first interface
    handle,    \* the UsbDevice: not yet built ("none"), built ("open", with its
               \* bufsize, e_in and e_out), or the panic that prevented it
    io,        \* the transport call in progress on the handle (UsbDevice::read
               \* or write): the transfer, the timer, and what the call returned
    probe      \* a pure function under study: its name, argument and result

\* The state of the protocol engine, of the transport adapter, and all of it.
engineVars == <<pc, op, arg, data, stage, pending, result, replies, wcalls, rcalls,
                timeouts, partials, sent, out, errlog, devq, origin, opCount,
                delivered, unanswered>>
adapterVars == <<devinfo, handle, io>>
vars == <<pc, op, arg, data, stage, pending, result, replies, wcalls, rcalls,
          timeouts, partials, sent, out, errlog, devq, origin, opCount,
          delivered, unanswered, devinfo, handle, io, probe>>

NoResult == [kind |-> "none", why |-> "none", val |-> <<>>, io |-> "none"]

\* ------------------------------------------------------- inputs
\* Variable names: "version". Partition names: "boot".
VarNames == {<<118, 101, 114, 115, 105, 111, 110>>}
Partitions == {<<98, 111, 111, 116>>}

\* Payloads: vec![0; size], as examples/download.rs builds them.
\* Lengths of the payloads downloaded and of the sizes the device announces:
\* the empty payload and one of MaxData bytes.
PayloadSizes == {0, MaxData}
Payloads == {[i \in 1..n |-> 0] : n \in PayloadSizes}

Calls ==
    {[op |-> "getvar", arg |-> a, data |-> <<>>] : a \in VarNames}
    \cup {[op |-> o, arg |-> a, data |-> <<>>] : o \in {"flash", "erase"}, a \in Partitions}
    \cup {[op |-> "download", arg |-> <<>>, data |-> d] : d \in Payloads}
    \cup {[op |-> o, arg |-> <<>>, data |-> <<>>] :
            o \in {"continue_boot", "reboot", "reboot_bootloader"}}

\* What the device may put on the bulk-IN endpoint. Besides the well-formed
\* replies: a reply with an unknown tag and a payload that is not UTF-8, a
\* packet shorter than a tag, and a zero-length packet.
DeviceReplies ==
    {TagOKAY, TagOKAY \o <<49, 46, 48>>, TagFAIL \o <<110, 111>>, TagINFO \o <<104, 105>>}
    \cup {TagDATA \o Hex08(n) : n \in PayloadSizes}
    \cup {<<87, 88, 89, 90, 255>>, <<79, 75>>, <<>>}

\* The device answers a request with nothing, with one reply, or with an INFO
\* followed by the final OKAY or FAIL.
Answers ==
    {<<>>} \cup {<<r>> : r \in DeviceReplies}
    \cup {<<TagINFO \o <<104, 105>>, f>> : f \in {TagOKAY, TagFAIL \o <<110, 111>>}}

\* The replies of q, all stale: a new request is being exchanged.
MarkStale(q) == [i \in 1..Len(q) |-> [raw |-> q[i].raw, stale |-> TRUE]]

Fresh(ans) == [i \in 1..Len(ans) |-> [raw |-> ans[i], stale |-> FALSE]]

\* The queues the device may leave once the current request has reached it in full.
Answered(q) ==
    {q \o Fresh(ans) : ans \in {a \in Answers : Len(q) + Len(a) <= MaxQueue}}

\* The byte counts a bulk-OUT transfer of buf may report as accepted
\* (comp.data.actual_length()) short of the whole buffer.
ShortCounts(buf) == {n \in {0, 1, Len(buf) - 1} : n >= 0 /\ n < Len(buf)}

\* ------------------------------------------------------- the handle in use
\* An endpoint of the interface: its transfer type, direction and address.
Endpoint(ty, dir, addr) == [type |-> ty, dir |-> dir, addr |-> addr]

NoHandle == [state |-> "none", why |-> "none", bufsize |-> 0, e_in |-> 0, e_out |-> 0]
IoIdle == [call |-> "none", cap |-> 0, transfer |-> "none", n |-> 0,
           timer |-> "none", first |-> "none", ret |-> "none", count |-> 0]
NoReply == [tag |-> "none", msg |-> <<>>, size |-> 0]
NoProbe == [fn |-> "none", raw |-> <<>>, len |-> [hi |-> 0, lo |-> 0],
            reply |-> NoReply, cmd |-> <<>>, done |-> FALSE]

\* The handle the protocol operations run on: a high-speed device with a
\* bulk IN endpoint 0x81 and a bulk OUT endpoint 0x01, built and idle.
HandleInUse ==
    /\ devinfo = [speed |-> "High",
                  eps |-> <<Endpoint("Bulk", "In", 129), Endpoint("Bulk", "Out", 1)>>,
                  interfaces |-> TRUE, open |-> TRUE, claim |-> TRUE,
                  configurations |-> TRUE, alt_settings |-> TRUE]
    /\ handle = [state |-> "open", why |-> "none", bufsize |-> 512, e_in |-> 129,
                 e_out |-> 1]
    /\ io = IoIdle

\* ------------------------------------------------------- initial state
EngineInit ==
    /\ pc = "idle"
    /\ op = "none"
    /\ arg = <<>>
    /\ data = <<>>
    /\ stage = 1
    /\ pending = <<>>
    /\ result = NoResult
    /\ replies = <<>>
    /\ wcalls = <<0, 0>>
    /\ rcalls = <<0, 0>>
    /\ timeouts = <<0, 0>>
    /\ partials = 0
    /\ sent = << <<>>, <<>> >>
    /\ out = <<>>
    /\ errlog = <<>>
    /\ devq = <<>>
    /\ origin = <<>>
    /\ opCount = 0
    /\ delivered = <<>>
    /\ unanswered = 0

Init ==
    /\ EngineInit
    /\ HandleInUse
    /\ probe = NoProbe

\* ------------------------------------------------------- actions
\* The caller invokes an operation: it builds the command and enters fb_send,
\* whose write_all has the whole command to write.
Call(c) ==
    /\ pc \in {"idle", "done"}
    /\ opCount < MaxOps
    /\ opCount' = opCount + 1
    /\ op' = c.op
    /\ arg' = c.arg
    /\ data' = c.data
    /\ stage' = 1
    /\ pending' = Command(c.op, c.arg, c.data)
    /\ pc' = "write"
    /\ result' = NoResult
    /\ replies' = <<>>
    /\ wcalls' = <<0, 0>>
    /\ rcalls' = <<0, 0>>
    /\ timeouts' = <<0, 0>>
    /\ partials' = 0
    /\ sent' = << <<>>, <<>> >>
    /\ out' = <<>>
    /\ errlog' = <<>>
    /\ origin' = <<>>
    /\ devq' = MarkStale(devq)
    /\ delivered' = <<>>
    /\ UNCHANGED unanswered
    /\ UNCHANGED <<devinfo, handle, io, probe>>

\* The operation returns r to its caller.
Return(r) ==
    /\ pc' = "done"
    /\ result' = r
    /\ pending' = <<>>

\* The Err(err.to_string()) of a transport error: why is which call failed
\* ("write" or "read") and io the error's kind.
IoError(w, kind) == [kind |-> "err", why |-> w, val |-> <<>>, io |-> kind]

\* One call of Write::write from write_all that the transport completes with
\* good status, n bytes accepted. Ok(0) is write_all's WriteZero error; a
\* short count leaves the rest for the next call; the full count ends
\* write_all, the request is with the device, and fb_send goes on to read.
\* The bytes a transfer reports as accepted have reached the device.
WriteOk(n) ==
    /\ pc = "write"
    /\ n \in 0..Len(pending)
    /\ wcalls' = [wcalls EXCEPT ![stage] = @ + 1]
    /\ sent' = [sent EXCEPT ![stage] = @ \o Take(pending, n)]
    /\ delivered' = delivered \o Take(pending, n)
    /\ unanswered' = IF n > 0 /\ n = Len(pending) THEN unanswered + 1 ELSE unanswered
    /\ IF n = 0
       THEN /\ Return(IoError("write", "WriteZero"))
            /\ UNCHANGED <<devq, partials>>
       ELSE /\ pending' = Drop(pending, n)
            /\ n < Len(pending) => partials < MaxPartial
            /\ partials' = IF n < Len(pending) THEN partials + 1 ELSE partials
            /\ pc' = IF WriteAllDone(pending') THEN "read" ELSE "write"
            /\ devq' \in IF n = Len(pending) THEN Answered(devq) ELSE {devq}
            /\ UNCHANGED result
    /\ UNCHANGED <<op, arg, data, stage, replies, rcalls, timeouts, out, errlog,
                   origin, opCount>>
    /\ UNCHANGED <<devinfo, handle, io, probe>>

\* One call of Write::write that returns an error: write_all returns it unless
\* it is Interrupted, and fb_send's `?` returns it from the operation. The
\* count of the transfer is dropped with the error status, and a transfer
\* that lost against the timer is left to itself: m bytes of the buffer, any
\* number up to all of them, have reached the device, which answers a
\* request it has in full as it answers any other.
WriteErr(kind) ==
    /\ pc = "write"
    /\ wcalls' = [wcalls EXCEPT ![stage] = @ + 1]
    /\ IF WriteAllRetries(kind)
       THEN UNCHANGED <<pc, result, pending>>
       ELSE Return(IoError("write", kind))
    /\ \E m \in ShortCounts(pending) \cup {Len(pending)} :
          /\ delivered' = delivered \o Take(pending, m)
          /\ devq' \in IF m = Len(pending) THEN Answered(devq) ELSE {devq}
    /\ UNCHANGED <<op, arg, data, stage, replies, rcalls, timeouts, partials, sent,
                   out, errlog, origin, opCount, unanswered>>
    /\ UNCHANGED <<devinfo, handle, io, probe>>

\* One call of Read::read that returns an error: fb_send reads again on a
\* timeout and returns any other error.
ReadErr(kind) ==
    /\ pc = "read"
    /\ rcalls' = [rcalls EXCEPT ![stage] = @ + 1]
    /\ IF ReadRetries(kind)
       THEN /\ timeouts[stage] < MaxTimeouts
            /\ timeouts' = [timeouts EXCEPT ![stage] = @ + 1]
            /\ UNCHANGED <<pc, result, pending>>
       ELSE /\ Return(IoError("read", kind))
            /\ UNCHANGED timeouts
    /\ UNCHANGED <<op, arg, data, stage, replies, wcalls, partials, sent, out,
                   errlog, devq, origin, opCount, delivered, unanswered>>
    /\ UNCHANGED <<devinfo, handle, io, probe>>

\* One call of Read::read that returns the device's oldest unread reply:
\* fb_send decodes it (a panic in split_at for fewer than 4 bytes) and the
\* operation classifies it: it returns, or download enters its second fb_send
\* with the payload (write_all of an empty payload calls write not at all).
ReadOk ==
    /\ pc = "read"
    /\ devq /= <<>>
    /\ rcalls' = [rcalls EXCEPT ![stage] = @ + 1]
    /\ origin' = Append(origin, Head(devq).stale)
    /\ LET answered == IF unanswered > 0 THEN unanswered - 1 ELSE 0
           payload == ~SplitPanics(Head(devq).raw)
                      /\ Classify(op, stage, Decode(Head(devq).raw), data).next = "payload"
       IN  /\ delivered' = IF payload THEN <<>> ELSE delivered
           /\ unanswered' = IF payload /\ data = <<>> THEN answered + 1 ELSE answered
    /\ LET raw == Head(devq).raw
       IN  IF SplitPanics(raw)
           THEN /\ pc' = "panic"
                /\ devq' = Tail(devq)
                /\ UNCHANGED <<stage, pending, result, replies, out, errlog>>
           ELSE LET r == Decode(raw)
                    c == Classify(op, stage, r, data)
                IN  /\ replies' = Append(replies, r)
                    /\ errlog' = IF DecodeLogs(raw) THEN Append(errlog, r.msg) ELSE errlog
                    /\ out' = IF c.print THEN Append(out, c.val) ELSE out
                    /\ IF c.next = "payload"
                       THEN /\ stage' = 2
                            /\ pending' = data
                            /\ pc' = IF data = <<>> THEN "read" ELSE "write"
                            /\ devq' \in IF data = <<>>
                                         THEN Answered(MarkStale(Tail(devq)))
                                         ELSE {MarkStale(Tail(devq))}
                            /\ UNCHANGED result
                       ELSE /\ Return([kind |-> c.kind, why |-> c.why, val |-> c.val, io |-> "none"])
                            /\ devq' = Tail(devq)
                            /\ UNCHANGED stage
    /\ UNCHANGED <<op, arg, data, wcalls, timeouts, partials, sent, opCount>>
    /\ UNCHANGED <<devinfo, handle, io, probe>>

Next ==
    \/ \E c \in Calls : Call(c)
    \/ \E n \in ShortCounts(pending) \cup {Len(pending)} : WriteOk(n)
    \/ \E k \in ErrorKinds : WriteErr(k)
    \/ \E k \in ErrorKinds : ReadErr(k)
    \/ ReadOk

Spec == Init /\ [][Next]_vars

TypeOK ==
    /\ pc \in {"idle", "write", "read", "done", "panic"}
    /\ op \in Ops \cup {"none"}
    /\ stage \in {1, 2}
    /\ result.kind \in {"none", "ok", "err"}
    /\ Len(replies) <= 2
    /\ Len(devq) <= MaxQueue
    /\ delivered \in Seq(0..255)
    /\ unanswered \in 0..(2 * MaxOps)

\* ------------------------------------------------------- derived notions
\* The request fb_send call st of the operation has to write.
Request(st) == IF st = 1 THEN Command(op, arg, data) ELSE data

Returned == pc = "done"

\* The step is one call of Write::write of the operation in progress.
WriteIssued == pc = "write" /\ wcalls'[stage] = wcalls[stage] + 1

\* The step is one call of Read::read of the operation in progress.
ReadIssued == pc = "read" /\ rcalls'[stage] = rcalls[stage] + 1

\* The step is a read that completed with good status (it took the device's
\* oldest reply), a read that timed out, a read that failed otherwise.
ReadSucceeded == ReadIssued /\ Len(origin') = Len(origin) + 1
ReadTimedOut == ReadIssued /\ timeouts'[stage] = timeouts[stage] + 1
ReadFailed == ReadIssued /\ ~ReadSucceeded /\ ~ReadTimedOut

\* ------------------------------------------------------- C1
\* C1: when the device answers `download:<len>` with Data(M), M different from
\* the payload's length, download has returned an error, it made no second
\* exchange, and no write call and no byte followed the command.
C1_MismatchSendsNothing ==
    (op = "download" /\ Len(replies) >= 1 /\ replies[1].tag = "Data"
        /\ replies[1].size /= Len(data))
    => /\ Returned
       /\ result.kind = "err"
       /\ stage = 1
       /\ Len(replies) = 1
       /\ wcalls[2] = 0
       /\ rcalls[2] = 0
       /\ sent[2] = <<>>

C1_Witness ==
    /\ op = "download"
    /\ Returned
    /\ Len(replies) = 1
    /\ replies[1].tag = "Data"
    /\ replies[1].size /= Len(data)
    /\ sent[1] = DOWNLOAD_CMD \o Hex08(Len(data))

\* ------------------------------------------------------- C2
\* C2: a download that returned has succeeded exactly when the first reply was
\* Data(n) with n the payload's length and the second reply was Okay; a
\* successful download made exactly two exchanges, the `download:<len>`
\* command first and the payload second.
C2_DownloadSuccess ==
    (op = "download" /\ Returned)
    => /\ result.kind = "ok"
          <=> /\ Len(replies) = 2
              /\ replies[1].tag = "Data"
              /\ replies[1].size = Len(data)
              /\ replies[2].tag = "Okay"
       /\ result.kind = "ok"
          => /\ stage = 2
             /\ sent[1] = DOWNLOAD_CMD \o Hex08(Len(data))
             /\ sent[2] = data
             /\ rcalls[1] >= 1
             /\ rcalls[2] >= 1

C2_Witness ==
    /\ op = "download"
    /\ Returned
    /\ result.kind = "ok"
    /\ data /= <<>>
    /\ Len(replies) = 2

\* ------------------------------------------------------- C3
\* C3: within one exchange a read that times out is followed by another read
\* and by nothing else: the exchange goes on, nothing is written again and no
\* timeout of a read is ever returned to the caller; the read that then
\* succeeds, whatever it returns, gives the exchange the decoded reply of
\* exactly that read, the request having been written once.
C3_TimeoutsAreRetried ==
    [][ /\ ReadTimedOut
           => /\ pc' = "read"
              /\ stage' = stage
              /\ result' = result
              /\ replies' = replies
              /\ wcalls' = wcalls
              /\ sent' = sent
              /\ devq' = devq
        /\ result'.why = "read" => result'.io /= "TimedOut"
        /\ ReadSucceeded
           => /\ pc' /= "panic"
              /\ replies' = Append(replies, Decode(Head(devq).raw))
              /\ wcalls' = wcalls
              /\ sent' = sent
              /\ sent[stage] = Request(stage)
      ]_vars

\* ------------------------------------------------------- C4
\* C4: a write call that fails (a timeout included) or accepts nothing ends
\* the operation with an error at once, no read of that exchange having been
\* or being issued; a read that fails with another error than a timeout ends
\* it with an error as well; and after such an error the operation makes no
\* further read or write: the next transport call belongs to a new operation.
C4_TransportErrorsAreFatal ==
    [][ /\ (WriteIssued /\ sent' = sent)
           => /\ pc' = "done"
              /\ result'.kind = "err"
              /\ result'.why = "write"
              /\ rcalls[stage] = 0
              /\ rcalls' = rcalls
        /\ ReadFailed
           => /\ pc' = "done"
              /\ result'.kind = "err"
              /\ result'.why = "read"
              /\ wcalls' = wcalls
        /\ (Returned /\ result.why \in {"write", "read"})
           => /\ opCount' = opCount + 1
              /\ wcalls' = <<0, 0>>
              /\ rcalls' = <<0, 0>>
      ]_vars

\* The write of download's payload timed out.
C4_Witness ==
    /\ Returned
    /\ op = "download"
    /\ stage = 2
    /\ result.kind = "err"
    /\ result.why = "write"
    /\ result.io = "TimedOut"
    /\ rcalls[2] = 0

\* ------------------------------------------------------- C5
\* C5: getvar writes the bytes `getvar:` followed by the name and nothing
\* else, makes one exchange, and returns Ok(value) for Okay(value), Err(msg)
\* for Fail(msg) and Err("Unknown failure") for an Info or Data reply.
C5_Getvar ==
    op = "getvar"
    => /\ stage = 1
       /\ Len(sent[1]) <= Len(GETVAR_CMD \o arg)
       /\ sent[1] = Take(GETVAR_CMD \o arg, Len(sent[1]))
       /\ sent[2] = <<>>
       /\ rcalls[1] > 0 => sent[1] = GETVAR_CMD \o arg
       /\ Len(replies) <= 1
       /\ Len(replies) = 1
          => /\ Returned
             /\ replies[1].tag = "Okay"
                => result.kind = "ok" /\ result.val = replies[1].msg
             /\ replies[1].tag = "Fail"
                => result.kind = "err" /\ result.val = replies[1].msg
             /\ replies[1].tag \in {"Info", "Data"}
                => result.kind = "err" /\ result.val = UnknownFailure

\* getvar:version answered FAILno: the error "no".
C5_Witness ==
    /\ op = "getvar"
    /\ Returned
    /\ sent[1] = GETVAR_CMD \o <<118, 101, 114, 115, 105, 111, 110>>
    /\ Len(replies) = 1
    /\ replies[1] = Fail(<<110, 111>>)
    /\ result.kind = "err"
    /\ result.val = <<110, 111>>

\* ------------------------------------------------------- C6
\* C6: whatever the transport returns, a read of fewer than 4 bytes included,
\* no operation aborts the process: each ends by returning a value.
C6_NoAbort == pc /= "panic"

\* ------------------------------------------------------- C7
\* The device has answered the request being exchanged with OKAY (after an
\* INFO or not), and the client has not read that answer.
AcknowledgedUnread ==
    \E i \in 1..Len(devq) :
        /\ ~devq[i].stale
        /\ Len(devq[i].raw) >= 4
        /\ Take(devq[i].raw, 4) = TagOKAY

\* The bytes of the payload that have reached the device, and the device
\* having announced the payload's length and taken every byte of it.
PayloadAtDevice == IF op = "download" /\ stage = 2 THEN delivered ELSE <<>>
PayloadReceived == op = "download" /\ stage = 2 /\ delivered = data

\* C7 (as claimed): download does not commit in part: when it returns an
\* error, the device has not both received the complete payload and
\* acknowledged it.
C7_NoPartialCommit ==
    (op = "download" /\ Returned /\ result.kind = "err")
    => ~(PayloadReceived /\ AcknowledgedUnread)

\* C7 (amended): download reports success only when the device has received
\* the complete payload and the reply read after it is an Okay; an error
\* returned before any write of the payload was issued leaves the device
\* without a byte of it; and an error returned once a reply to the payload
\* was being read is returned with the complete payload at the device. (An
\* error of a write of the payload says nothing: see the witness.)
C7_CommitOnlyOnSuccess ==
    (op = "download" /\ Returned)
    => /\ result.kind = "ok"
          => /\ PayloadReceived
             /\ Len(replies) = 2
             /\ replies[2].tag = "Okay"
       /\ (result.kind = "err" /\ wcalls[2] = 0 /\ rcalls[2] = 0) => PayloadAtDevice = <<>>
       /\ (result.kind = "err" /\ rcalls[2] >= 1) => PayloadReceived

\* A write of the payload failed after a part of the payload, and not all of
\* it, had reached the device.
C7_Witness ==
    /\ op = "download"
    /\ Returned
    /\ result.kind = "err"
    /\ result.why = "write"
    /\ stage = 2
    /\ rcalls[2] = 0
    /\ Len(delivered) > 0
    /\ Len(delivered) < Len(data)

\* ------------------------------------------------------- C8
\* C8: a read is issued only once the request of its exchange has been written
\* in full; a write is issued only while no read of its exchange has been
\* issued and no request written earlier on the handle, by this operation or
\* by one before it, is without its reply (download's payload only after the
\* Data reply to `download:`); and the second exchange begins only with the
\* read of the first one's reply.
C8_WriteBeforeReadOneOutstanding ==
    [][ /\ ReadIssued
           => /\ pending = <<>>
              /\ sent[stage] = Request(stage)
        /\ WriteIssued
           => /\ rcalls[stage] = 0
              /\ Len(replies) = stage - 1
              /\ unanswered = 0
              /\ stage = 2
                 => /\ op = "download"
                    /\ replies[1].tag = "Data"
                    /\ rcalls[1] >= 1
                    /\ sent[1] = Request(1)
        /\ (stage' = 2 /\ stage = 1) => ReadSucceeded
      ]_vars

\* ------------------------------------------------------- C9
\* C9: flash makes one exchange and returns on its first reply: Okay is
\* success, Fail(msg) is the error msg, Info(msg) is printed and is the error
\* msg, no further reply being read; download treats the reply to its payload
\* the same way.
C9_InfoIsFailure ==
    LET Terminal(r) ==
            /\ Returned
            /\ r.tag = "Okay" => result.kind = "ok" /\ out = <<>>
            /\ r.tag = "Fail"
               => result.kind = "err" /\ result.val = r.msg /\ out = <<>>
            /\ r.tag = "Info"
               => result.kind = "err" /\ result.val = r.msg /\ out = <<r.msg>>
    IN  /\ op = "flash"
           => /\ stage = 1
              /\ sent[2] = <<>>
              /\ rcalls[2] = 0
              /\ Len(replies) <= 1
              /\ Len(replies) = 1 => Len(origin) = 1 /\ Terminal(replies[1])
        /\ (op = "download" /\ Len(replies) = 2)
           => Len(origin) = 2 /\ Terminal(replies[2])

\* flash returned the error of an INFO reply, whose final reply stays unread.
C9_Witness ==
    /\ op = "flash"
    /\ Returned
    /\ replies = <<Info(<<104, 105>>)>>
    /\ result.kind = "err"
    /\ result.val = <<104, 105>>
    /\ out = << <<104, 105>> >>
    /\ devq /= <<>>

\* ------------------------------------------------------- C10
\* C10: erase, continue_boot, reboot and reboot_bootloader return on their
\* first reply: success for Okay, the error msg for Fail(msg), the error
\* "Unknown failure" for Data and Info; a reply of at least 4 bytes whose tag
\* is none of OKAY, INFO, FAIL, DATA is decoded to Fail(payload) and so ends
\* the operation with the error payload, never with success or an abort.
C10_SimpleOperations ==
    [][ (ReadSucceeded /\ op \in {"erase", "continue_boot", "reboot", "reboot_bootloader"}
            /\ ~SplitPanics(Head(devq).raw))
        => LET raw == Head(devq).raw
               payload == Utf8Lossy(Drop(raw, 4))
               r == replies'[1]
           IN  /\ pc' = "done"
               /\ stage' = 1
               /\ Len(replies') = 1
               /\ r.tag = "Okay" => result'.kind = "ok"
               /\ r.tag = "Fail" => result'.kind = "err" /\ result'.val = r.msg
               /\ r.tag \in {"Data", "Info"}
                  => result'.kind = "err" /\ result'.val = UnknownFailure
               /\ Take(raw, 4) \notin {TagOKAY, TagINFO, TagFAIL, TagDATA}
                  => /\ r = Fail(payload)
                     /\ result'.kind = "err"
                     /\ result'.val = payload
      ]_vars

\* reboot answered with the unknown tag WXYZ and the byte 0xFF: the error is
\* the payload, its invalid byte replaced.
C10_Witness ==
    /\ op = "reboot"
    /\ Returned
    /\ errlog = << <<Replacement>> >>
    /\ result.kind = "err"
    /\ result.val = <<Replacement>>

\* =======================================================================
\* The decoder and the command formatter on their own
\* =======================================================================
\* Bounds of the inputs: NUL bytes appended to a reply, and the length of the
\* payloads enumerated byte by byte.
MaxPad == 2
MaxPayload == 3

Nuls(k) == [i \in 1..k |-> 0]

\* Sizes a device announces in a DATA reply.
DataSizes == {0, 1, 2, 512, 2748, 65535, 2147483647}

\* Bytes of the enumerated payloads: 0, 2, F, g, + and NUL.
PayloadBytes == {48, 50, 70, 103, 43, 0}

\* DATA replies as read from the device: the 8 digits a device sends with the
\* NUL bytes that may follow them, every short payload over PayloadBytes, and
\* a few payloads of their own: 000002 NUL NUL, 00000ABC, +0000002, -0000002,
\* 0x000200, 0000 NUL 200, 17 digits, 16 zeros then 2c, and a byte that is
\* not UTF-8.
DataReplies ==
    {TagDATA \o Hex08(n) \o Nuls(k) : n \in DataSizes, k \in 0..MaxPad}
    \cup {TagDATA \o p : p \in UNION {[1..n -> PayloadBytes] : n \in 0..MaxPayload}}
    \cup {TagDATA \o p : p \in {
            <<48, 48, 48, 48, 48, 50, 0, 0>>,
            <<48, 48, 48, 48, 48, 65, 66, 67>>,
            <<43, 48, 48, 48, 48, 48, 48, 50>>,
            <<45, 48, 48, 48, 48, 48, 48, 50>>,
            <<48, 120, 48, 48, 48, 50, 48, 48>>,
            <<48, 48, 48, 48, 0, 50, 48, 48>>,
            <<49>> \o [i \in 1..16 |-> 48],
            [i \in 1..16 |-> 48] \o <<50, 99>>,
            <<48, 48, 48, 48, 48, 50, 48, 255>>}}

\* Payload lengths download may be called with: data.len() of any slice,
\* up to and beyond 16^8 bytes.
PayloadLengths ==
    {Usize(hi, lo) : hi \in {0, 1, 15, 16}, lo \in {0, 1, 10, 512, 16^LimbDigits - 1}}

Probes ==
    {[NoProbe EXCEPT !.fn = "decode", !.raw = raw] : raw \in DataReplies}
    \cup {[NoProbe EXCEPT !.fn = "format", !.len = len] : len \in PayloadLengths}

CodecInit ==
    /\ EngineInit
    /\ HandleInUse
    /\ probe \in Probes

\* Reply::from on the bytes read: the panic of split_at, or the reply.
ApplyDecode ==
    /\ probe.fn = "decode"
    /\ ~probe.done
    /\ probe' = [probe EXCEPT
                    !.reply = IF SplitPanics(probe.raw)
                              THEN [NoReply EXCEPT !.tag = "panic"]
                              ELSE Decode(probe.raw),
                    !.done = TRUE]
    /\ UNCHANGED <<engineVars, adapterVars>>

\* download building its command from data.len().
ApplyFormat ==
    /\ probe.fn = "format"
    /\ ~probe.done
    /\ probe' = [probe EXCEPT !.cmd = DownloadCommand(probe.len), !.done = TRUE]
    /\ UNCHANGED <<engineVars, adapterVars>>

CodecNext ==
    \/ ApplyDecode
    \/ ApplyFormat

SpecCodec == CodecInit /\ [][CodecNext]_vars

\* What the protocol means by a hexadecimal digit and by the value of a
\* string of them, written without the parser's operators.
DigitTable == <<48, 49, 50, 51, 52, 53, 54, 55, 56, 57, 97, 98, 99, 100, 101, 102>>
IsLowerHexDigit(b) == \E i \in 1..16 : DigitTable[i] = b
IsHexDigit(b) == IsLowerHexDigit(b) \/ (b >= 65 /\ b <= 70)
DigitValue(b) ==
    LET l == IF b >= 65 /\ b <= 70 THEN b + 32 ELSE b
    IN  (CHOOSE i \in 1..16 : DigitTable[i] = l) - 1

RECURSIVE ValueOfDigits(_)
ValueOfDigits(ds) ==
    IF ds = <<>> THEN 0
    ELSE DigitValue(ds[1]) * 16^(Len(ds) - 1) + ValueOfDigits(Tail(ds))

\* A sequence without the NUL bytes at its ends.
WithoutNulPadding(p) ==
    LET keep == {i \in 1..Len(p) : p[i] /= 0}
    IN  IF keep = {} THEN <<>>
        ELSE SubSeq(p, CHOOSE i \in keep : \A j \in keep : i <= j,
                       CHOOSE i \in keep : \A j \in keep : i >= j)

Formatted == probe.fn = "format" /\ probe.done
Decoded == probe.fn = "decode" /\ probe.done

\* C11: for every payload length, download's command is download: followed
\* by exactly 8 lowercase hexadecimal digits whose value is the length, 17
\* bytes in all.
C11_EightDigitLength ==
    Formatted =>
        LET cmd == probe.cmd
            digits == Drop(cmd, Len(DOWNLOAD_CMD))
        IN  /\ Len(cmd) = 17
            /\ Take(cmd, Len(DOWNLOAD_CMD)) = DOWNLOAD_CMD
            /\ \A i \in 1..Len(digits) : IsLowerHexDigit(digits[i])
            /\ ValueOfDigits(Take(digits, 8 - LimbDigits)) = probe.len.hi
            /\ ValueOfDigits(Drop(digits, 8 - LimbDigits)) = probe.len.lo

\* C15 as stated: the DATA payload 000002 NUL NUL decodes to Data(512), as
\* the payload 00000200 does.
PaddedShort == TagDATA \o <<48, 48, 48, 48, 48, 50, 0, 0>>
FullDigits == TagDATA \o <<48, 48, 48, 48, 48, 50, 48, 48>>
C15_PaddedIs512 ==
    (Decoded /\ probe.raw = PaddedShort) =>
        (probe.reply = Data(512) /\ probe.reply = Decode(FullDigits))

\* C15, amended: the payload 000002 NUL NUL decodes to Data(2), its NUL bytes
\* removed and not read as zeros; 00000200 decodes to Data(512), with or
\* without NUL bytes after it.
C15_PaddedIs2 ==
    /\ (Decoded /\ probe.raw = PaddedShort) => probe.reply = Data(2)
    /\ \A k \in 0..MaxPad :
          (Decoded /\ probe.raw = FullDigits \o Nuls(k)) => probe.reply = Data(512)

C15_Witness == Decoded /\ probe.raw = PaddedShort /\ probe.reply.tag = "Data"

\* C16: a DATA reply whose payload is 8 hexadecimal digits followed by NUL
\* bytes decodes to Data of the digits' value; one whose payload, its NUL
\* padding removed, is empty or holds anything but hexadecimal digits decodes
\* to a Fail reply.
C16_DataDecoding ==
    Decoded =>
        LET p == Drop(probe.raw, 4)
            q == WithoutNulPadding(p)
        IN  /\ ( /\ Len(p) >= 8
                 /\ \A i \in 1..8 : IsHexDigit(p[i])
                 /\ \A i \in 9..Len(p) : p[i] = 0 )
               => probe.reply = Data(ValueOfDigits(Take(p, 8)))
            /\ (q = <<>> \/ \E i \in 1..Len(q) : ~IsHexDigit(q[i]))
               => probe.reply.tag = "Fail"

\* =======================================================================
\* The transport adapter: UsbDevice::new, read and write
\* =======================================================================
\* Bounds of the inputs: endpoints of the interface.
MaxEndpoints == 3

\* The reply buffer fb_send reads into.
FB_MAX_REPLY_LEN == 512

\* di.speed(): None, one of the five speeds of the match, or a speed the
\* match does not name (Speed is non-exhaustive).
Speeds == {"None", "Low", "Full", "High", "Super", "SuperPlus", "Unknown"}

\* Faulty variant: an unmatched speed falls back to 512 bytes.
SpeedMatchDefault(speed) ==
    CASE speed \in {"Full", "Low"} -> [ok |-> TRUE, size |-> 64]
      [] speed = "High" -> [ok |-> TRUE, size |-> 512]
      [] speed \in {"Super", "SuperPlus"} -> [ok |-> TRUE, size |-> 1024]
      [] OTHER -> [ok |-> TRUE, size |-> 512]

\* let bufsize = match speed { .. }: the size, or the panic of the last arm
\* (and of unwrap on a speed of None).
SpeedMatch(speed) ==
    CASE speed \in {"Full", "Low"} -> [ok |-> TRUE, size |-> 64]
      [] speed = "High" -> [ok |-> TRUE, size |-> 512]
      [] speed \in {"Super", "SuperPlus"} -> [ok |-> TRUE, size |-> 1024]
      [] OTHER -> [ok |-> FALSE, size |-> 0]

\* Faulty variant: endpoints of every transfer type pass the filter.
IsBulkAny(e) == TRUE

\* .filter(|e| e.transfer_type() == EndpointType::Bulk)
IsBulk(e) == e.type = "Bulk"

\* Iterator::find on the iterator es, of which the first `from - 1` items
\* are already consumed: the position of the first remaining item with the
\* direction, or 0 for None.
Find(es, from, dir) ==
    LET hits == {i \in from..Len(es) : es[i].dir = dir}
    IN  IF hits = {} THEN 0 ELSE CHOOSE i \in hits : \A j \in hits : i <= j

\* The endpoints an interface may list.
EndpointKinds ==
    {Endpoint("Bulk", "In", 129), Endpoint("Bulk", "Out", 1),
     Endpoint("Interrupt", "In", 130), Endpoint("Interrupt", "Out", 2)}

\* What UsbDevice::new is given: the speed and the endpoints, and whether
\* the device lists an interface, can be opened, lets the interface be
\* claimed, and has a configuration with an alternate setting.
DeviceInfos ==
    {[speed |-> s, eps |-> l, interfaces |-> f[1], open |-> f[2], claim |-> f[3],
      configurations |-> f[4], alt_settings |-> f[5]] :
        s \in Speeds, l \in UNION {[1..n -> EndpointKinds] : n \in 0..MaxEndpoints},
        f \in [1..5 -> BOOLEAN]}

UsbInit ==
    /\ EngineInit
    /\ probe = NoProbe
    /\ devinfo \in DeviceInfos
    /\ handle = NoHandle
    /\ io = IoIdle

Panicked(why) == [NoHandle EXCEPT !.state = "panic", !.why = why]

\* UsbDevice::new, each unwrap and the panic! in the order of the code: the
\* first interface, open, claim_interface, the speed match, the first
\* configuration and its first alternate setting, then e_in and e_out found
\* one after the other on the same iterator over the bulk endpoints.
New ==
    /\ handle.state = "none"
    /\ LET m == SpeedMatch(devinfo.speed)
           es == SelectSeq(devinfo.eps, IsBulk)
           i_in == Find(es, 1, "In")
           i_out == Find(es, i_in + 1, "Out")
       IN  handle' =
             IF ~devinfo.interfaces THEN Panicked("interfaces")
             ELSE IF ~devinfo.open THEN Panicked("open")
             ELSE IF ~devinfo.claim THEN Panicked("claim")
             ELSE IF ~m.ok THEN Panicked("speed")
             ELSE IF ~devinfo.configurations THEN Panicked("configurations")
             ELSE IF ~devinfo.alt_settings THEN Panicked("alt_settings")
             ELSE IF i_in = 0 THEN Panicked("e_in")
             ELSE IF i_out = 0 THEN Panicked("e_out")
             ELSE [state |-> "open", why |-> "none", bufsize |-> m.size,
                   e_in |-> es[i_in].addr, e_out |-> es[i_out].addr]
    /\ UNCHANGED <<engineVars, devinfo, io, probe>>

\* No call is running on the handle, and none has panicked.
CanCall == handle.state = "open" /\ io.ret /= "panic" /\ (io.call = "none" \/ io.ret /= "none")

\* Buffers read is called with, and lengths of the buffers write is called with.
ReadCaps == {0, FB_MAX_REPLY_LEN}
WriteLens == {0, 6, 17}

\* A call of read or write on a buffer of cap bytes: Ok(0) at once for an
\* empty buffer, else the transfer is submitted and the timer armed.
StartCall(call, cap) ==
    /\ CanCall
    /\ io' = IF cap = 0
             THEN [IoIdle EXCEPT !.call = call, !.ret = "ok"]
             ELSE [IoIdle EXCEPT !.call = call, !.cap = cap, !.transfer = "pending",
                                 !.timer = "armed"]
    /\ UNCHANGED <<engineVars, devinfo, handle, probe>>

StartRead(cap) == StartCall("read", cap)
StartWrite(len) == StartCall("write", len)

Racing == io.call /= "none" /\ io.ret = "none"

\* Bytes a completed transfer carries: at most bufsize for bulk_in, at most
\* the buffer's length for bulk_out.
TransferCounts ==
    IF io.call = "read"
    THEN {n \in {0, 3, 4, 64, 512, 513, 1024} : n <= handle.bufsize}
    ELSE {0, io.cap}

\* The USB stack completes the transfer, with a good status or an error.
TransferCompletes(status, n) ==
    /\ Racing
    /\ io.transfer = "pending"
    /\ io' = [io EXCEPT !.transfer = status, !.n = n,
                        !.first = IF io.first = "none" THEN "transfer" ELSE @]
    /\ UNCHANGED <<engineVars, devinfo, handle, probe>>

\* Timer::after(timeout) elapses.
TimerFires ==
    /\ Racing
    /\ io.timer = "armed"
    /\ io' = [io EXCEPT !.timer = "fired",
                        !.first = IF io.first = "none" THEN "timer" ELSE @]
    /\ UNCHANGED <<engineVars, devinfo, handle, probe>>

\* block_on polls fut.or(timer) after a wake-up: fut first, the timer only
\* if fut is still pending. A completed bulk_in is copied into buf[..n],
\* which panics for n above the buffer's length.
Resume ==
    /\ Racing
    /\ io.transfer /= "pending" \/ io.timer = "fired"
    /\ io' = CASE io.transfer = "ok" /\ io.call = "read" /\ io.n > io.cap ->
                    [io EXCEPT !.ret = "panic"]
               [] io.transfer = "ok" /\ ~(io.call = "read" /\ io.n > io.cap) ->
                    [io EXCEPT !.ret = "ok", !.count = io.n]
               [] io.transfer = "err" -> [io EXCEPT !.ret = "fatal"]
               [] OTHER -> [io EXCEPT !.ret = "timeout"]
    /\ UNCHANGED <<engineVars, devinfo, handle, probe>>

UsbNext ==
    \/ New
    \/ \E cap \in ReadCaps : StartRead(cap)
    \/ \E len \in WriteLens : StartWrite(len)
    \/ \E status \in {"ok", "err"}, n \in TransferCounts : TransferCompletes(status, n)
    \/ TimerFires
    \/ Resume

SpecUsb == UsbInit /\ [][UsbNext]_vars

\* A call of read or write has returned or panicked; a call that raced a
\* transfer against the timer has.
CallEnded == io.call /= "none" /\ io.ret /= "none"
RaceEnded == CallEnded /\ io.transfer /= "none"

\* Every step of construction that does not depend on the speed or on the
\* endpoints succeeds.
Openable ==
    /\ devinfo.interfaces /\ devinfo.open /\ devinfo.claim
    /\ devinfo.configurations /\ devinfo.alt_settings

HasBulk(dir) ==
    \E i \in 1..Len(devinfo.eps) :
        devinfo.eps[i].type = "Bulk" /\ devinfo.eps[i].dir = dir

\* C12: a read never aborts and never returns a count above the capacity of
\* the caller's buffer, for every negotiated buffer size and every completed
\* transfer of up to that many bytes.
C12_ReadFitsBuffer ==
    (CallEnded /\ io.call = "read") =>
        /\ io.ret /= "panic"
        /\ io.ret = "ok" => io.count <= io.cap

\* C13: a handle exists only for the speeds Low, Full (64 bytes), High (512)
\* and Super, SuperPlus (1024), with that buffer size at construction and
\* after every call made on it; any other speed leaves no handle.
C13_BufferSizeBySpeed ==
    /\ handle.state = "open" =>
          \/ devinfo.speed \in {"Full", "Low"} /\ handle.bufsize = 64
          \/ devinfo.speed = "High" /\ handle.bufsize = 512
          \/ devinfo.speed \in {"Super", "SuperPlus"} /\ handle.bufsize = 1024
    /\ (handle.state /= "none"
        /\ devinfo.speed \notin {"Full", "Low", "High", "Super", "SuperPlus"})
          => (handle.state = "panic" /\ io.call = "none")

C13_Witness ==
    /\ handle.state = "open"
    /\ devinfo.speed = "SuperPlus"
    /\ handle.bufsize = 1024
    /\ CallEnded /\ io.call = "read" /\ io.ret = "ok" /\ io.count = 64

\* C14: with no bulk IN endpoint or no bulk OUT endpoint in the list no
\* handle is produced and no read or write is ever issued; endpoints of
\* another transfer type do not count.
C14_NeedsBothBulkEndpoints ==
    (~HasBulk("In") \/ ~HasBulk("Out")) =>
        (handle.state /= "open" /\ io.call = "none")

C14_Witness ==
    /\ handle.state = "panic"
    /\ handle.why = "e_in"
    /\ HasBulk("Out")
    /\ \E i \in 1..Len(devinfo.eps) :
          devinfo.eps[i].type = "Interrupt" /\ devinfo.eps[i].dir = "In"

\* C17: a call that races a transfer against the timer returns the byte
\* count if the transfer completed with a good status before the timer
\* fired, a non-timeout error if it completed with an error status before
\* the timer fired, and a timeout error if the timer fired before the
\* transfer completed; and it can return as soon as either has happened.
C17_RaceOutcome ==
    /\ RaceEnded =>
          /\ (io.first = "transfer" /\ io.transfer = "ok")
                => (io.ret = "ok" /\ io.count = io.n)
          /\ (io.first = "transfer" /\ io.transfer = "err") => io.ret = "fatal"
          /\ io.first = "timer" => io.ret = "timeout"
    /\ (Racing /\ io.first /= "none") => ENABLED Resume

\* C20: whatever the order of the list, if it holds a bulk IN and a bulk
\* OUT endpoint (the device can be opened and claimed and the speed is one
\* of the five), construction succeeds
\* with e_in the address of a bulk IN endpoint and e_out that of a bulk OUT
\* endpoint.
C20_OrderIndependent ==
    (/\ handle.state /= "none"
     /\ Openable
     /\ SpeedMatch(devinfo.speed).ok
     /\ HasBulk("In") /\ HasBulk("Out")) =>
        /\ handle.state = "open"
        /\ \E i \in 1..Len(devinfo.eps) :
              devinfo.eps[i] = Endpoint("Bulk", "In", handle.e_in)
        /\ \E i \in 1..Len(devinfo.eps) :
              devinfo.eps[i] = Endpoint("Bulk", "Out", handle.e_out)

\* =======================================================================
\* Operations in sequence on one handle
\* =======================================================================
\* C19: every reply an operation decodes was sent by the device in answer to
\* a request that operation wrote: none was left unread by an earlier
\* operation.
C19_NoStaleReply ==
    (Returned /\ result.io = "none") => \A i \in 1..Len(origin) : ~origin[i]

\* =======================================================================
\* Termination of an exchange
\* =======================================================================
\* Every call of write returns, and the transport does not answer reads
\* with timeouts for ever: a read that returns data or a fatal error
\* eventually happens while the engine keeps reading.
WriteReturns ==
    \/ \E n \in ShortCounts(pending) \cup {Len(pending)} : WriteOk(n)
    \/ \E k \in ErrorKinds : WriteErr(k)
ReadAnswered == Next /\ ReadIssued /\ ~ReadTimedOut

SpecFair ==
    /\ Init
    /\ [][Next]_vars
    /\ WF_vars(WriteReturns)
    /\ WF_vars(ReadAnswered)

InExchange == pc \in {"write", "read"}

\* C18: fb_send has no deadline of its own, a timed-out read only ever
\* leads to another read; and with a transport that eventually answers a
\* read with data or a fatal error, every operation eventually returns
\* Ok or Err.
C18_Terminates ==
    /\ [][ReadTimedOut => (pc' = "read" /\ result' = NoResult)]_vars
    /\ InExchange ~> Returned

====
